---- MODULE Spec2Model ----
(***************************************************************************)
(* Knowledge-graph investigation engine of 12_SIREX (src/core).            *)
(*                                                                         *)
(* Units.  Confidences, similarities and scores are floats in the source;  *)
(* here they are integers in thousandths (1.0 is 1000).  Reliability       *)
(* tables and the correlation support are in hundredths.  A selection      *)
(* score is an exact rational <<numerator, denominator>>.                   *)
(*                                                                         *)
(* Identifiers.  Node, edge and inference ids are uuid4 strings in the     *)
(* source, fresh at construction; the stores are insertion-ordered dicts.  *)
(* Here a store is a sequence and an object's id is its index, so a fresh  *)
(* id is Len(store) + 1 and the iteration order is the index order.        *)
(* None is the id 0 (NoneId) or the tag "None".                            *)
(***************************************************************************)
EXTENDS Integers, Sequences, FiniteSets, TLC

VARIABLES
    nodes,          \* kg.nodes: sequence of [type, confidence]
    edges,          \* kg.edges: sequence of [from_node, to_node, relation, confidence]
    inferences,     \* kg.inferences: sequence of [nodes_involved, edges_created, confidence, status]
    visited,        \* agent.visited: set of node ids
    memory,         \* InvestigationMemory: the four counters
    known_faces,    \* FaceMatcher.known_faces: sequence of [id, emb], insertion order
    has_decide,     \* whether the agent object resolves self.decide_primitive
    calls,          \* the run_cycle invocations in progress: position and locals
    expansions,     \* number of run_cycle calls that reached visited.add
    last            \* the last operation and what it returned

vars == <<nodes, edges, inferences, visited, memory, known_faces, has_decide,
          calls, expansions, last>>

(***************************************************************************)
(* Bounds of the model.                                                    *)
(***************************************************************************)
MaxNodes == 7
MaxSeeds == 2
MaxFaces == 1
MaxHits == 1

NoneId == 0

Max(a, b) == IF a >= b THEN a ELSE b
Min(a, b) == IF a <= b THEN a ELSE b

NodeTypes ==
    {"image", "image_hash", "face_embedding", "username", "platform",
     "profile_url", "domain", "ip", "asn", "hosting_provider"}

PrimitiveTags ==
    {"image_fingerprint", "face_analysis", "identity_osint",
     "infrastructure_osint", "None"}

(***************************************************************************)
(* core/nodes.py, core/edges.py, core/inference.py: the dataclasses.  No   *)
(* field is validated at construction.                                     *)
(***************************************************************************)
Node(type, confidence) == [type |-> type, confidence |-> confidence]

Edge(from_node, to_node, relation, confidence) ==
    [from_node |-> from_node, to_node |-> to_node, relation |-> relation,
     confidence |-> confidence]

InferenceRecord(nodes_involved, edges_created, confidence, status) ==
    [nodes_involved |-> nodes_involved, edges_created |-> edges_created,
     confidence |-> confidence, status |-> status]

(***************************************************************************)
(* core/confidence.py                                                      *)
(***************************************************************************)
SOURCE_RELIABILITY(source) ==
    CASE source = "model_output" -> 80
      [] source = "spiderfoot" -> 60
      [] source = "external_api" -> 70
      [] source = "heuristic" -> 50
      [] OTHER -> 50

METHOD_RELIABILITY(method) ==
    CASE method = "face_embedding" -> 85
      [] method = "perceptual_hash" -> 75
      [] method = "username_similarity" -> 60
      [] method = "time_correlation" -> 55
      [] OTHER -> 50

\* round(n / d) to the nearest integer.  On a tie the source rounds the
\* float product, which lies on one side of the halfway point or the other
\* (see RoundOutcomes); no call of the pipelines is a tie.
RoundDiv(n, d) ==
    LET q == n \div d
        r == n % d
    IN  IF 2 * r < d THEN q
        ELSE IF 2 * r > d THEN q + 1
        ELSE IF q % 2 = 0 THEN q ELSE q + 1

\* a faulty variant: the correlation support without its cap
calculate_confidence_uncapped(source, method, signal_strength, supporting_edges) ==
    LET sr == SOURCE_RELIABILITY(source)
        mr == METHOD_RELIABILITY(method)
        correlation_support == supporting_edges * 15
    IN  RoundDiv(sr * mr * signal_strength * correlation_support, 1000000)

\* signal_strength in thousandths; the result in thousandths
calculate_confidence(source, method, signal_strength, supporting_edges) ==
    LET sr == SOURCE_RELIABILITY(source)
        mr == METHOD_RELIABILITY(method)
        correlation_support == Min(100, supporting_edges * 15)
    IN  RoundDiv(sr * mr * signal_strength * correlation_support, 1000000)

\* what round(x, 3) can return for the float product x of the source: the
\* nearest thousandth, and either neighbour when the exact product is
\* halfway, since the float is then a little below or a little above it
RoundOutcomes(source, method, signal_strength, supporting_edges) ==
    LET n == SOURCE_RELIABILITY(source) * METHOD_RELIABILITY(method)
               * signal_strength * Min(100, supporting_edges * 15)
        r == calculate_confidence(source, method, signal_strength,
                                  supporting_edges)
    IN  IF 2 * (n % 1000000) = 1000000 THEN {n \div 1000000, n \div 1000000 + 1}
        ELSE {r}

(***************************************************************************)
(* core/fingerprints/face_matcher.py                                       *)
(***************************************************************************)
Dot(a, b) == a[1] * b[1] + a[2] * b[2]

ISqrt(n) == CHOOSE r \in 0..n : r * r <= n /\ (r + 1) * (r + 1) > n

\* sklearn cosine_similarity, in thousandths; the embeddings of the model
\* have integral norms, so the quotient is exact
cosine_similarity(a, b) ==
    LET d == 1000 * Dot(a, b)
        n == ISqrt(Dot(a, a)) * ISqrt(Dot(b, b))
    IN  IF d >= 0 THEN d \div n ELSE -((-d) \div n)

threshold == 600

\* register_face: dict assignment: a known id keeps its place
register_face(kf, node_id, embedding) ==
    IF \E i \in 1..Len(kf) : kf[i].id = node_id
    THEN [i \in 1..Len(kf) |->
            IF kf[i].id = node_id THEN [id |-> node_id, emb |-> embedding]
            ELSE kf[i]]
    ELSE Append(kf, [id |-> node_id, emb |-> embedding])

RECURSIVE MatchLoopLast(_, _, _, _)
\* a faulty variant: a later entry of equal similarity replaces the best
MatchLoopLast(kf, embedding, i, best) ==
    IF i > Len(kf) THEN best
    ELSE LET score == cosine_similarity(embedding, kf[i].emb)
         IN  MatchLoopLast(kf, embedding, i + 1,
                           IF score >= best.score /\ score > 0
                           THEN [id |-> kf[i].id, score |-> score]
                           ELSE best)

RECURSIVE MatchLoop(_, _, _, _)
\* the for loop of find_match from entry i, with the best so far
MatchLoop(kf, embedding, i, best) ==
    IF i > Len(kf) THEN best
    ELSE LET score == cosine_similarity(embedding, kf[i].emb)
         IN  MatchLoop(kf, embedding, i + 1,
                       IF score > best.score
                       THEN [id |-> kf[i].id, score |-> score]
                       ELSE best)

\* a faulty variant: no test for the empty registry, best_score from -1
find_match_unguarded(kf, embedding) ==
    MatchLoop(kf, embedding, 1, [id |-> NoneId, score |-> -1000])

\* face_matcher.py lines 14-28
find_match(kf, embedding) ==
    IF Len(kf) = 0 THEN [id |-> NoneId, score |-> 0]
    ELSE MatchLoop(kf, embedding, 1, [id |-> NoneId, score |-> 0])

(***************************************************************************)
(* core/agent/memory.py                                                    *)
(***************************************************************************)
EmptyMemory ==
    [successful_primitives |-> [p \in PrimitiveTags |-> 0],
     failed_primitives |-> [p \in PrimitiveTags |-> 0],
     node_type_success |-> [t \in NodeTypes |-> 0],
     node_type_fail |-> [t \in NodeTypes |-> 0]]

record_result(mem, node_type, primitive, success) ==
    IF success
    THEN [mem EXCEPT !.successful_primitives[primitive] = @ + 1,
                     !.node_type_success[node_type] = @ + 1]
    ELSE [mem EXCEPT !.failed_primitives[primitive] = @ + 1,
                     !.node_type_fail[node_type] = @ + 1]

\* s / total as <<s, total>>, and 0.5 as <<1, 2>>
primitive_score(mem, primitive) ==
    LET s == mem.successful_primitives[primitive]
        f == mem.failed_primitives[primitive]
        total == s + f
    IN  IF total # 0 THEN <<s, total>> ELSE <<1, 2>>

\* a faulty variant: 0 for a node type without observations
node_type_score_zero(mem, node_type) ==
    LET s == mem.node_type_success[node_type]
        f == mem.node_type_fail[node_type]
        total == s + f
    IN  IF total # 0 THEN <<s, total>> ELSE <<0, 1>>

node_type_score(mem, node_type) ==
    LET s == mem.node_type_success[node_type]
        f == mem.node_type_fail[node_type]
        total == s + f
    IN  IF total # 0 THEN <<s, total>> ELSE <<1, 2>>

(***************************************************************************)
(* core/agent/heuristics.py, in millionths (priority x confidence)         *)
(***************************************************************************)
type_priority(type) ==
    CASE type = "image" -> 900
      [] type = "face_embedding" -> 950
      [] type = "username" -> 850
      [] type = "domain" -> 800
      [] type = "ip" -> 750
      [] type = "audio_signature" -> 700
      [] type = "video_frame_cluster" -> 700
      [] OTHER -> 500

score_node_for_expansion(node) == type_priority(node.type) * node.confidence

(***************************************************************************)
(* core/agent/agent_controller.py: the OSINTAgent in effect (lines 58-95)  *)
(***************************************************************************)
\* base_score * learning_boost as a rational
Score(ns, mem, i) ==
    LET boost == node_type_score(mem, ns[i].type)
    IN  <<score_node_for_expansion(ns[i]) * boost[1], boost[2]>>

ScoreLess(a, b) == a[1] * b[2] < b[1] * a[2]

ScorePositive(a) == a[1] > 0

RECURSIVE InsertDescFront(_, _, _)
\* a faulty variant: x put in front of the entries equal to it
InsertDescFront(s, x, k) ==
    IF k > Len(s) THEN Append(s, x)
    ELSE IF ~ScoreLess(x[2], s[k][2])
         THEN SubSeq(s, 1, k - 1) \o <<x>> \o SubSeq(s, k, Len(s))
         ELSE InsertDescFront(s, x, k + 1)

RECURSIVE InsertDesc(_, _, _)
\* x put into the descending sequence s behind every entry not smaller than it
InsertDesc(s, x, k) ==
    IF k > Len(s) THEN Append(s, x)
    ELSE IF ScoreLess(s[k][2], x[2])
         THEN SubSeq(s, 1, k - 1) \o <<x>> \o SubSeq(s, k, Len(s))
         ELSE InsertDesc(s, x, k + 1)

RECURSIVE SortDesc(_, _)
\* scored.sort(key=score, reverse=True): stable, equal scores keep their order
SortDesc(scored, n) ==
    IF n = 0 THEN <<>>
    ELSE InsertDesc(SortDesc(scored, n - 1), scored[n], 1)

choose_next_target(ns, mem) ==
    LET scored == [i \in 1..Len(ns) |-> <<i, Score(ns, mem, i)>>]
        sorted == SortDesc(scored, Len(scored))
    IN  IF Len(sorted) > 0 THEN sorted[1][1] ELSE NoneId

\* lines 23-32, the body of the first class statement
decide_primitive(node) ==
    IF node.type = "image" THEN "image_fingerprint"
    ELSE IF node.type = "face_embedding" THEN "face_analysis"
    ELSE IF node.type = "username" THEN "identity_osint"
    ELSE IF node.type \in {"domain", "ip"} THEN "infrastructure_osint"
    ELSE "None"

(***************************************************************************)
(* core/pipelines: the three expansion primitives.  A store is the record  *)
(* kg = [nodes, edges, inferences, known_faces]; each primitive returns    *)
(* the store it leaves.  What the collaborators return is an argument, and  *)
(* so is the collaborator call that raises, if one does (fail, "" when     *)
(* none): no primitive catches, so the store then stays as the statements  *)
(* before the raising call left it.                                        *)
(***************************************************************************)
Store(ns, es, infs, kf) ==
    [nodes |-> ns, edges |-> es, inferences |-> infs, known_faces |-> kf]

RECURSIVE FaceLoopSimilarity(_, _, _, _, _)
\* a faulty variant: the match edge carries the similarity as its confidence
FaceLoopSimilarity(st, img_id, faces, i, thr) ==
    IF i > Len(faces) THEN st
    ELSE
      LET emb == faces[i]
          face_id == Len(st.nodes) + 1
          ns1 == Append(st.nodes, Node("face_embedding", 1000))
          conf == calculate_confidence("model_output", "face_embedding", 920, 1)
          edge_id == Len(st.edges) + 1
          es1 == Append(st.edges, Edge(img_id, face_id, "derived_from", conf))
          m == find_match(st.known_faces, emb)
          kf1 == register_face(st.known_faces, face_id, emb)
          es2 == IF m.id # NoneId /\ m.score > thr
                 THEN Append(es1, Edge(face_id, m.id, "likely_same_as", m.score))
                 ELSE es1
      IN  FaceLoopSimilarity([nodes |-> ns1, edges |-> es2, known_faces |-> kf1,
                              created_edges |-> Append(st.created_edges, edge_id)],
                             img_id, faces, i + 1, thr)

RECURSIVE FaceLoop(_, _, _, _, _)
\* image_pipeline.py lines 27-46: the loop over the extracted embeddings;
\* st = [nodes, edges, known_faces, created_edges]
FaceLoop(st, img_id, faces, i, thr) ==
    IF i > Len(faces) THEN st
    ELSE
      LET emb == faces[i]
          face_id == Len(st.nodes) + 1
          ns1 == Append(st.nodes, Node("face_embedding", 1000))
          conf == calculate_confidence("model_output", "face_embedding", 920, 1)
          edge_id == Len(st.edges) + 1
          es1 == Append(st.edges, Edge(img_id, face_id, "derived_from", conf))
          m == find_match(st.known_faces, emb)
          kf1 == register_face(st.known_faces, face_id, emb)
          es2 == IF m.id # NoneId /\ m.score > thr
                 THEN Append(es1, Edge(face_id, m.id, "likely_same_as",
                        calculate_confidence("model_output", "face_embedding",
                                             m.score, 2)))
                 ELSE es1
      IN  FaceLoop([nodes |-> ns1, edges |-> es2, known_faces |-> kf1,
                    created_edges |-> Append(st.created_edges, edge_id)],
                   img_id, faces, i + 1, thr)

\* a faulty variant: the edge to the hash node is stored before the hash is
\* computed and its node stored
process_image_edge_first(kg, faces, fail) ==
    LET img_id == Len(kg.nodes) + 1
        hash_id == Len(kg.nodes) + 2
        ns0 == Append(kg.nodes, Node("image", 1000))
        ns1 == Append(ns0, Node("image_hash", 1000))
        edge_conf == calculate_confidence("model_output", "perceptual_hash", 900, 1)
        es1 == Append(kg.edges, Edge(img_id, hash_id, "derived_from", edge_conf))
        st == FaceLoop([nodes |-> ns1, edges |-> es1,
                        known_faces |-> kg.known_faces, created_edges |-> <<>>],
                       img_id, faces, 1, threshold)
        inf == InferenceRecord(<<img_id, hash_id>>, st.created_edges, 700, "accepted")
    IN  IF fail = "get_perceptual_hash"
        THEN Store(ns0, es1, kg.inferences, kg.known_faces)
        ELSE IF fail = "extract_face_embeddings"
        THEN Store(ns1, es1, kg.inferences, kg.known_faces)
        ELSE Store(st.nodes, st.edges, Append(kg.inferences, inf), st.known_faces)

\* faces: what extract_face_embeddings returns for the image
process_image(kg, faces, fail) ==
    LET img_id == Len(kg.nodes) + 1
        hash_id == Len(kg.nodes) + 2
        ns0 == Append(kg.nodes, Node("image", 1000))
        ns1 == Append(ns0, Node("image_hash", 1000))
        edge_conf == calculate_confidence("model_output", "perceptual_hash", 900, 1)
        es1 == Append(kg.edges, Edge(img_id, hash_id, "derived_from", edge_conf))
        st == FaceLoop([nodes |-> ns1, edges |-> es1,
                        known_faces |-> kg.known_faces, created_edges |-> <<>>],
                       img_id, faces, 1, threshold)
        inf == InferenceRecord(<<img_id, hash_id>>, st.created_edges, 700, "accepted")
    IN  IF fail = "get_perceptual_hash"
        THEN \* line 15 raises
             Store(ns0, kg.edges, kg.inferences, kg.known_faces)
        ELSE IF fail = "extract_face_embeddings"
        THEN \* line 24 raises
             Store(ns1, es1, kg.inferences, kg.known_faces)
        ELSE Store(st.nodes, st.edges, Append(kg.inferences, inf), st.known_faces)

RECURSIVE HitLoop(_, _, _, _)
\* identity_pipeline.py lines 16-37, one pass per probe result;
\* st = [nodes, edges, created_nodes, created_edges]
HitLoop(st, username_id, hits, i) ==
    IF i > hits THEN st
    ELSE
      LET pid == Len(st.nodes) + 1
          uid == Len(st.nodes) + 2
          conf == calculate_confidence("heuristic", "username_similarity", 750, 1)
          e1 == Len(st.edges) + 1
          e2 == Len(st.edges) + 2
      IN  HitLoop([nodes |-> st.nodes \o <<Node("platform", 1000),
                                           Node("profile_url", 1000)>>,
                   edges |-> st.edges \o
                       <<Edge(username_id, uid, "co_occurs_with", conf),
                         Edge(uid, pid, "indexed_by", conf)>>,
                   created_nodes |-> st.created_nodes \o <<pid, uid>>,
                   created_edges |-> st.created_edges \o <<e1, e2>>],
                  username_id, hits, i + 1)

\* a faulty variant: the expanded node is stored again under its id, with the
\* confidence of the inference
process_username_overwrite(kg, username_id, hits, fail) ==
    LET st == HitLoop([nodes |-> kg.nodes, edges |-> kg.edges,
                       created_nodes |-> <<>>, created_edges |-> <<>>],
                      username_id, hits, 1)
        inf == InferenceRecord(<<username_id>> \o st.created_nodes,
                               st.created_edges, 650, "accepted")
    IN  Store([st.nodes EXCEPT ![username_id] = Node("username", 650)],
              st.edges, Append(kg.inferences, inf), kg.known_faces)

\* hits: how many results probe_platforms returns over all variants (before
\* the call that raises, if one does)
process_username(kg, username_id, hits, fail) ==
    LET st == HitLoop([nodes |-> kg.nodes, edges |-> kg.edges,
                       created_nodes |-> <<>>, created_edges |-> <<>>],
                      username_id, hits, 1)
        inf == InferenceRecord(<<username_id>> \o st.created_nodes,
                               st.created_edges, 650, "accepted")
    IN  IF fail = "generate_variants"
        THEN \* line 11 raises
             kg
        ELSE IF fail = "probe_platforms"
        THEN \* line 17 raises on a later variant
             Store(st.nodes, st.edges, kg.inferences, kg.known_faces)
        ELSE Store(st.nodes, st.edges, Append(kg.inferences, inf), kg.known_faces)

process_infrastructure(kg, node_id) ==
    LET type == kg.nodes[node_id].type
        n == Len(kg.nodes)
        e == Len(kg.edges)
        dconf == calculate_confidence("heuristic", "dns_lookup", 850, 1)
        \* if node.type == "domain": ip, asn and hosting_provider
        ns1 == IF type = "domain"
               THEN kg.nodes \o <<Node("ip", 1000), Node("asn", 1000),
                                  Node("hosting_provider", 1000)>>
               ELSE kg.nodes
        es1 == IF type = "domain"
               THEN kg.edges \o <<Edge(node_id, n + 1, "hosted_on", dconf),
                                  Edge(n + 1, n + 2, "co_occurs_with", dconf),
                                  Edge(n + 1, n + 3, "hosted_on", dconf)>>
               ELSE kg.edges
        cn1 == IF type = "domain" THEN <<n + 1, n + 2, n + 3>> ELSE <<>>
        ce1 == IF type = "domain" THEN <<e + 1, e + 2, e + 3>> ELSE <<>>
        \* if node.type == "ip": two related domains
        rconf == calculate_confidence("heuristic", "infra_reuse", 750, 1)
        n1 == Len(ns1)
        e1 == Len(es1)
        ns2 == IF type = "ip"
               THEN ns1 \o <<Node("domain", 1000), Node("domain", 1000)>>
               ELSE ns1
        es2 == IF type = "ip"
               THEN es1 \o <<Edge(node_id, n1 + 1, "co_occurs_with", rconf),
                             Edge(node_id, n1 + 2, "co_occurs_with", rconf)>>
               ELSE es1
        cn2 == IF type = "ip" THEN cn1 \o <<n1 + 1, n1 + 2>> ELSE cn1
        ce2 == IF type = "ip" THEN ce1 \o <<e1 + 1, e1 + 2>> ELSE ce1
        inf == InferenceRecord(<<node_id>> \o cn2, ce2, 700, "accepted")
    IN  Store(ns2, es2, Append(kg.inferences, inf), kg.known_faces)

(***************************************************************************)
(* core/agent/pipeline_runner.py                                           *)
(***************************************************************************)
\* a faulty variant: the last branch taken for every other tag
execute_fallthrough(kg, primitive, node_id, c) ==
    IF primitive = "image_fingerprint" THEN process_image(kg, c.faces, c.fail)
    ELSE IF primitive = "identity_osint"
    THEN process_username(kg, node_id, c.hits, c.fail)
    ELSE process_infrastructure(kg, node_id)

\* c = [faces, hits, fail]: what the collaborators do during this dispatch
execute(kg, primitive, node_id, c) ==
    IF primitive = "image_fingerprint" THEN process_image(kg, c.faces, c.fail)
    ELSE IF primitive = "identity_osint"
    THEN process_username(kg, node_id, c.hits, c.fail)
    ELSE IF primitive = "infrastructure_osint" THEN process_infrastructure(kg, node_id)
    ELSE kg

(***************************************************************************)
(* core/analysis/graph_intelligence.py                                     *)
(***************************************************************************)
EdgeKey(e) == <<e.from_node, e.to_node, e.relation>>

RECURSIVE RelationMap(_, _, _)
\* lines 3-7: relation_map.setdefault(key, []).append(edge), from edge i on;
\* the map is a sequence of [key, members], the members being edge ids
RelationMap(es, i, map) ==
    IF i > Len(es) THEN map
    ELSE LET key == EdgeKey(es[i])
         IN  RelationMap(es, i + 1,
               IF \E g \in 1..Len(map) : map[g].key = key
               THEN [g \in 1..Len(map) |->
                       IF map[g].key = key
                       THEN [map[g] EXCEPT !.members = Append(@, i)]
                       ELSE map[g]]
               ELSE Append(map, [key |-> key, members |-> <<i>>]))

\* a faulty variant: a group of one is boosted too
IsCorroboratedAny(members) == Len(members) >= 1

\* line 10: if len(edges) > 1
IsCorroborated(members) == Len(members) > 1

\* line 11: boost = min(0.2, 0.05 * len(edges))
Boost(members) == Min(200, 50 * Len(members))

RECURSIVE BoostMembers(_, _, _, _)
\* lines 12-13: for e in edges: e.confidence = min(1.0, e.confidence + boost)
BoostMembers(es, members, m, boost) ==
    IF m > Len(members) THEN es
    ELSE BoostMembers(
           [es EXCEPT ![members[m]].confidence = Min(1000, @ + boost)],
           members, m + 1, boost)

RECURSIVE ReinforceGroups(_, _, _)
\* lines 9-13: the loop over relation_map.items() from group g on
ReinforceGroups(es, map, g) ==
    IF g > Len(map) THEN es
    ELSE ReinforceGroups(
           IF IsCorroborated(map[g].members)
           THEN BoostMembers(es, map[g].members, 1, Boost(map[g].members))
           ELSE es,
           map, g + 1)

reinforce_confidence(es) == ReinforceGroups(es, RelationMap(es, 1, <<>>), 1)

\* a faulty variant: the boundary 0.7 included
IsMergeCandidateAtLeast(e) ==
    e.relation = "likely_same_as" /\ e.confidence >= 700

\* line 20: if e.relation == "likely_same_as" and e.confidence > 0.7
IsMergeCandidate(e) == e.relation = "likely_same_as" /\ e.confidence > 700

RECURSIVE MergeLoop(_, _, _)
\* lines 19-21 from edge i on
MergeLoop(es, i, merges) ==
    IF i > Len(es) THEN merges
    ELSE MergeLoop(es, i + 1,
                   IF IsMergeCandidate(es[i])
                   THEN Append(merges, <<es[i].from_node, es[i].to_node>>)
                   ELSE merges)

detect_entity_merges(es) == MergeLoop(es, 1, <<>>)

\* a faulty variant: only the outgoing edges are counted
compute_centrality_out(ns, es) ==
    [node_id \in 1..Len(ns) |->
        Cardinality({j \in 1..Len(es) : es[j].from_node = node_id})]

\* lines 25-35: for every node the number of edges that start or end at it
compute_centrality(ns, es) ==
    [node_id \in 1..Len(ns) |->
        Cardinality({j \in 1..Len(es) :
            es[j].from_node = node_id \/ es[j].to_node = node_id})]

\* lines 37-55, in thousandths
compute_risk_scores(ns, es) ==
    LET centrality == compute_centrality(ns, es)
    IN  [node_id \in 1..Len(ns) |->
            LET base == ns[node_id].confidence
                influence == centrality[node_id] * 100
                risk == IF ns[node_id].type \in {"ip", "domain"}
                        THEN base + influence + 200
                        ELSE IF ns[node_id].type \in {"username", "face_embedding"}
                        THEN base + influence + 300
                        ELSE base + influence
            IN  Min(1000, risk)]

(***************************************************************************)
(* What the operations return, kept for the properties.                    *)
(***************************************************************************)
Ret(op, result, id, tag) ==
    [op |-> op, result |-> result, id |-> id, tag |-> tag,
     x |-> 0, y |-> 0, pairs |-> <<>>]

RetXY(op, result, id, x, y) ==
    [op |-> op, result |-> result, id |-> id, tag |-> "",
     x |-> x, y |-> y, pairs |-> <<>>]

RetPairs(op, pairs) ==
    [op |-> op, result |-> "returned", id |-> NoneId, tag |-> "",
     x |-> 0, y |-> 0, pairs |-> pairs]

RetMatch(m, embedding) ==
    [op |-> "find_match", result |-> "returned", id |-> m.id, tag |-> "",
     x |-> m.score, y |-> 0, pairs |-> embedding]

KG == Store(nodes, edges, inferences, known_faces)

SetKG(kg) ==
    /\ nodes' = kg.nodes
    /\ edges' = kg.edges
    /\ inferences' = kg.inferences
    /\ known_faces' = kg.known_faces

SeqsUpTo(S, n) == UNION {[1..k -> S] : k \in 0..n}

(***************************************************************************)
(* The investigation: a host that seeds the store and steps the agent.     *)
(***************************************************************************)
\* embeddings the biometric extractor may return: cosines 0, 0.6, 0.8, 1
FaceInputs == {<<1, 0>>, <<3, 4>>, <<0, 1>>}

SeedTypes == {"username", "domain", "ip", "asn"}

SeedConfidences == {0, 1000}

\* the seed artifacts of the host: one of each type at the default
\* confidence, and a username and an ip the host has no confidence in
SeedInputs ==
    {n \in SeedTypes \X SeedConfidences :
        n[2] = 0 => n[1] \in {"username", "ip"}}

\* what the collaborators may do during one dispatch of the primitive:
\* get_perceptual_hash and extract_face_embeddings are called by
\* process_image only, generate_variants and probe_platforms by
\* process_username only, and process_infrastructure draws random values
\* that the model does not keep.  Each call returns or raises (a missing
\* file, a timeout, a service error).
CollaboratorsUpTo(primitive, max_faces) ==
    IF primitive = "image_fingerprint"
    THEN [faces : SeqsUpTo(FaceInputs, max_faces), hits : {0}, fail : {""}]
         \cup [faces : {<<>>}, hits : {0},
               fail : {"get_perceptual_hash", "extract_face_embeddings"}]
    ELSE IF primitive = "identity_osint"
    THEN [faces : {<<>>}, hits : 0..MaxHits, fail : {"", "probe_platforms"}]
         \cup [faces : {<<>>}, hits : {0}, fail : {"generate_variants"}]
    ELSE [faces : {<<>>}, hits : {0}, fail : {""}]

Collaborators(primitive) == CollaboratorsUpTo(primitive, MaxFaces)

\* the run_cycle invocations that may be in progress at the same time
MaxCalls == 2

Calls == 1..MaxCalls

\* agent_controller.py line 77: an invocation that has not started; its
\* locals target_id and primitive are unbound
IdleCall == [pc |-> "idle", target_id |-> NoneId, primitive |-> "None"]

Init ==
    /\ nodes = <<>>
    /\ edges = <<>>
    /\ inferences = <<>>
    /\ visited = {}
    /\ memory = EmptyMemory
    /\ known_faces = <<>>
    \* agent_controller.py binds OSINTAgent twice; decide_primitive is in the
    \* first body only (lines 23-32).  FALSE: the module as loaded, the second
    \* class statement (line 58) in effect.  TRUE: an agent whose class also
    \* carries the first body's method.
    /\ has_decide \in BOOLEAN
    /\ calls = [c \in Calls |-> IdleCall]
    /\ expansions = 0
    /\ last = Ret("init", "", NoneId, "")

\* main.py line 132: process_image called by the host on an upload
SeedImage(faces) ==
    LET kg == process_image(KG, faces, "")
    IN  /\ Len(kg.nodes) <= MaxNodes
        /\ SetKG(kg)
        /\ last' = Ret("process_image", "returned", Len(nodes) + 1, "")
        /\ UNCHANGED <<visited, memory, has_decide, calls, expansions>>

\* graph_engine.py lines 15-17: the host puts a seed artifact into the store
AddNode(type, confidence) ==
    /\ Len(nodes) < MaxSeeds
    /\ nodes' = Append(nodes, Node(type, confidence))
    /\ last' = Ret("add_node", "returned", Len(nodes) + 1, "")
    /\ UNCHANGED <<edges, inferences, visited, memory, known_faces,
                   has_decide, calls, expansions>>

\* line 36 of the first class statement: no visited test
ExhaustedNoVisited(target_id, vis) == target_id = NoneId

\* agent_controller.py line 79: if not target_id or target_id in self.visited
Exhausted(target_id, vis) == target_id = NoneId \/ target_id \in vis

\* a faulty variant: the set keeps the latest target only
visited_add_latest(vis, target_id) == {target_id}

\* a faulty variant: the target is not recorded
visited_add_skipped(vis, target_id) == vis

\* agent_controller.py line 85: self.visited.add(target_id)
visited_add(vis, target_id) == vis \cup {target_id}

\* agent_controller.py lines 77-95
RunCycle ==
    LET target_id == choose_next_target(nodes, memory)
    IN  \/ \* lines 79-80
           /\ Exhausted(target_id, visited)
           /\ last' = Ret("run_cycle", "None", target_id, "")
           /\ UNCHANGED <<nodes, edges, inferences, visited, memory,
                          known_faces, has_decide, calls, expansions>>
        \/ \* line 83 on an agent without the attribute
           /\ ~Exhausted(target_id, visited)
           /\ ~has_decide
           /\ last' = Ret("run_cycle", "AttributeError", target_id, "")
           /\ UNCHANGED <<nodes, edges, inferences, visited, memory,
                          known_faces, has_decide, calls, expansions>>
        \/ \* lines 82-89, a collaborator raising inside execute: nothing
           \* catches, so lines 90-95 do not run
           /\ ~Exhausted(target_id, visited)
           /\ has_decide
           /\ LET node == nodes[target_id]
                  primitive == decide_primitive(node)
              IN  \E c \in Collaborators(primitive) :
                    LET kg == execute(KG, primitive, target_id, c)
                    IN  /\ c.fail # ""
                        /\ Len(kg.nodes) <= MaxNodes
                        /\ visited' = visited_add(visited, target_id)
                        /\ SetKG(kg)
                        /\ expansions' = expansions + 1
                        /\ last' = Ret("run_cycle", "CollaboratorError",
                                       target_id, primitive)
                        /\ UNCHANGED <<memory, has_decide, calls>>
        \/ \* lines 82-95
           /\ ~Exhausted(target_id, visited)
           /\ has_decide
           /\ LET node == nodes[target_id]
                  primitive == decide_primitive(node)
              IN  \E c \in Collaborators(primitive) :
                    LET before_nodes == Len(nodes)
                        kg == execute(KG, primitive, target_id, c)
                        after_nodes == Len(kg.nodes)
                        success == after_nodes > before_nodes
                    IN  /\ c.fail = ""
                        /\ after_nodes <= MaxNodes
                        /\ visited' = visited_add(visited, target_id)
                        /\ SetKG(kg)
                        /\ memory' = record_result(memory, node.type,
                                                   primitive, success)
                        /\ expansions' = expansions + 1
                        /\ last' = Ret("run_cycle", "returned", target_id,
                                       primitive)
                        /\ UNCHANGED <<has_decide, calls>>

Next ==
    \/ \E faces \in SeqsUpTo(FaceInputs, MaxFaces) : SeedImage(faces)
    \/ \E n \in SeedInputs : AddNode(n[1], n[2])
    \/ RunCycle

Spec == Init /\ [][Next]_vars

(***************************************************************************)
(* Two hosts stepping the same agent: each invocation of run_cycle is a    *)
(* sequence of statements, and the interpreter may switch between the      *)
(* invocations after any of them.  run_cycle takes no lock (lines 77-95    *)
(* hold none, and no module of the repository creates one), so every      *)
(* interleaving of the statements is a behaviour.  Lines 88-95 are one     *)
(* step: the store is read and written there by one primitive.             *)
(***************************************************************************)
\* agent_controller.py line 78: target_id = self.choose_next_target()
Choose(c) ==
    /\ calls[c].pc = "idle"
    /\ calls' = [calls EXCEPT ![c] =
                    [pc |-> "chosen",
                     target_id |-> choose_next_target(nodes, memory),
                     primitive |-> "None"]]
    /\ last' = Ret("choose_next_target", "returned", calls'[c].target_id, "")
    /\ UNCHANGED <<nodes, edges, inferences, visited, memory, known_faces,
                   has_decide, expansions>>

\* agent_controller.py lines 79-80: the visited test of this invocation
Check(c) ==
    /\ calls[c].pc = "chosen"
    /\ IF Exhausted(calls[c].target_id, visited)
       THEN /\ calls' = [calls EXCEPT ![c].pc = "done"]
            /\ last' = Ret("run_cycle", "None", calls[c].target_id, "")
       ELSE /\ calls' = [calls EXCEPT ![c].pc = "checked"]
            /\ last' = Ret("check", "passed", calls[c].target_id, "")
    /\ UNCHANGED <<nodes, edges, inferences, visited, memory, known_faces,
                   has_decide, expansions>>

\* agent_controller.py lines 82-83: get_node and self.decide_primitive
Decide(c) ==
    /\ calls[c].pc = "checked"
    /\ IF has_decide
       THEN /\ calls' = [calls EXCEPT
                            ![c].pc = "decided",
                            ![c].primitive =
                                decide_primitive(nodes[calls[c].target_id])]
            /\ last' = Ret("decide_primitive", "returned",
                           calls[c].target_id, calls'[c].primitive)
       ELSE /\ calls' = [calls EXCEPT ![c].pc = "done"]
            /\ last' = Ret("run_cycle", "AttributeError",
                           calls[c].target_id, "")
    /\ UNCHANGED <<nodes, edges, inferences, visited, memory, known_faces,
                   has_decide, expansions>>

\* agent_controller.py line 85: self.visited.add(target_id)
Mark(c) ==
    /\ calls[c].pc = "decided"
    /\ visited' = visited_add(visited, calls[c].target_id)
    /\ expansions' = expansions + 1
    /\ calls' = [calls EXCEPT ![c].pc = "marked"]
    /\ last' = Ret("visited.add", "returned", calls[c].target_id,
                   calls[c].primitive)
    /\ UNCHANGED <<nodes, edges, inferences, memory, known_faces, has_decide>>

\* agent_controller.py lines 88-95: the dispatch and the memory update
Dispatch(c) ==
    /\ calls[c].pc = "marked"
    /\ LET target_id == calls[c].target_id
           primitive == calls[c].primitive
       IN  \E co \in Collaborators(primitive) :
             LET before_nodes == Len(nodes)
                 kg == execute(KG, primitive, target_id, co)
                 after_nodes == Len(kg.nodes)
                 success == after_nodes > before_nodes
             IN  /\ after_nodes <= MaxNodes
                 /\ SetKG(kg)
                 /\ memory' = IF co.fail = ""
                              THEN record_result(memory, nodes[target_id].type,
                                                 primitive, success)
                              ELSE memory
                 /\ last' = Ret("run_cycle",
                                IF co.fail = "" THEN "returned"
                                ELSE "CollaboratorError",
                                target_id, primitive)
    /\ calls' = [calls EXCEPT ![c].pc = "dispatched"]
    /\ UNCHANGED <<visited, has_decide, expansions>>

NextCalls ==
    \/ \E n \in SeedInputs : AddNode(n[1], n[2])
    \/ \E c \in Calls : Choose(c)
    \/ \E c \in Calls : Check(c)
    \/ \E c \in Calls : Decide(c)
    \/ \E c \in Calls : Mark(c)
    \/ \E c \in Calls : Dispatch(c)

SpecCalls == Init /\ [][NextCalls]_vars

(***************************************************************************)
(* The data model on its own: a host that constructs objects, stores them  *)
(* and updates node confidences.                                           *)
(***************************************************************************)
MaxObjects == 3

ConfidenceInputs == {-200, 0, 700, 1000, 1300}

InitModel ==
    /\ nodes = <<>>
    /\ edges = <<>>
    /\ inferences = <<>>
    /\ visited = {}
    /\ memory = EmptyMemory
    /\ known_faces = <<>>
    /\ has_decide = FALSE
    /\ calls = [c \in Calls |-> IdleCall]
    /\ expansions = 0
    /\ last = Ret("init", "", NoneId, "")

Objects == Len(nodes) + Len(edges) + Len(inferences)

\* nodes.py lines 7-18 and graph_engine.py lines 15-17
ConstructNode(type, confidence) ==
    /\ Objects < MaxObjects
    /\ nodes' = Append(nodes, Node(type, confidence))
    /\ last' = RetXY("Node", "constructed", Len(nodes) + 1, confidence, 0)
    /\ UNCHANGED <<edges, inferences, visited, memory, known_faces,
                   has_decide, calls, expansions>>

\* edges.py lines 7-18 and graph_engine.py lines 23-25
ConstructEdge(from_node, to_node, relation, confidence) ==
    /\ Objects < MaxObjects
    /\ edges' = Append(edges, Edge(from_node, to_node, relation, confidence))
    /\ last' = RetXY("Edge", "constructed", Len(edges) + 1, confidence, 0)
    /\ UNCHANGED <<nodes, inferences, visited, memory, known_faces,
                   has_decide, calls, expansions>>

\* inference.py lines 7-17 and graph_engine.py lines 31-33
ConstructInference(confidence, status) ==
    /\ Objects < MaxObjects
    /\ inferences' = Append(inferences,
                            InferenceRecord(<<>>, <<>>, confidence, status))
    /\ last' = RetXY("InferenceRecord", "constructed", Len(inferences) + 1,
                     confidence, 0)
    /\ UNCHANGED <<nodes, edges, visited, memory, known_faces,
                   has_decide, calls, expansions>>

\* a faulty variant: plain assignment
update_confidence_assign(confidence, new_conf) == new_conf

\* nodes.py line 21: self.confidence = max(self.confidence, new_conf)
update_confidence(confidence, new_conf) ==
    IF new_conf > confidence THEN new_conf ELSE confidence

\* nodes.py lines 20-22 on the node with id i
UpdateConfidence(i, new_conf) ==
    /\ nodes' = [nodes EXCEPT ![i].confidence = update_confidence(@, new_conf)]
    /\ last' = RetXY("update_confidence", "returned", i,
                     nodes[i].confidence, new_conf)
    /\ UNCHANGED <<edges, inferences, visited, memory, known_faces,
                   has_decide, calls, expansions>>

NextModel ==
    \/ \E c \in ConfidenceInputs : ConstructNode("username", c)
    \/ \E c \in ConfidenceInputs : ConstructEdge(1, 2, "co_occurs_with", c)
    \/ \E c \in ConfidenceInputs : ConstructInference(c, "pending")
    \/ \E i \in 1..Len(nodes), c \in ConfidenceInputs : UpdateConfidence(i, c)

SpecModel == InitModel /\ [][NextModel]_vars

(***************************************************************************)
(* Properties of the decision loop, checked under Spec.                    *)
(***************************************************************************)
Unvisited == (1..Len(nodes)) \ visited

PositiveUnvisited ==
    {i \in Unvisited : ScorePositive(Score(nodes, memory, i))}

\* C1: in every state reachable by run_cycle calls, choose_next_target does
\* not return the id of a node that is in visited.
C1_TargetNeverVisited == choose_next_target(nodes, memory) \notin visited

\* C2: run_cycle returns None (exhausted) only in a state where no node
\* outside visited has a positive score.
C2_ExhaustedOnlyWithoutFrontier ==
    (last.op = "run_cycle" /\ last.result = "None") => PositiveUnvisited = {}

\* C3: the number of expansion cycles never exceeds the number of distinct
\* nodes in the store, so the loop cannot run forever once the store stops
\* growing: a run_cycle call either returns None or raises before line 85
\* and changes nothing, or puts exactly one node id of the store that was
\* not yet in visited into visited (also when a collaborator raises during
\* the dispatch); and a call made when every node of the store is in visited
\* returns None.
C3_ExpansionsBounded ==
    /\ [](/\ visited \subseteq 1..Len(nodes)
          /\ expansions = Cardinality(visited)
          /\ expansions <= Len(nodes))
    /\ [][last'.op = "run_cycle" =>
            \/ /\ last'.result \in {"returned", "CollaboratorError"}
               /\ last'.id \in (1..Len(nodes)) \ visited
               /\ visited' = visited \cup {last'.id}
               /\ expansions' = expansions + 1
            \/ /\ last'.result \in {"None", "AttributeError"}
               /\ UNCHANGED <<nodes, edges, visited, expansions>>]_vars
    /\ [][(last'.op = "run_cycle" /\ visited = 1..Len(nodes))
            => last'.result = "None"]_vars

\* a domain and an ip have both been expanded, each once, and the next call
\* has returned None
C3_Witness ==
    /\ last.op = "run_cycle"
    /\ last.result = "None"
    /\ expansions >= 2
    /\ \E i \in visited : nodes[i].type = "domain"
    /\ \E i \in visited : nodes[i].type = "ip"

\* C4: choose_next_target returns None when the store is empty or every
\* score is zero or negative, and never the id of a node whose score is <= 0.
C4_TargetScoresPositive ==
    LET t == choose_next_target(nodes, memory)
    IN  /\ t # NoneId => ScorePositive(Score(nodes, memory, t))
        /\ (\A i \in 1..Len(nodes) : ~ScorePositive(Score(nodes, memory, i)))
              => t = NoneId

(***************************************************************************)
(* Properties of the data model, checked under SpecModel.                  *)
(***************************************************************************)
\* C5: after update_confidence(new) the node's confidence is the maximum of
\* its previous confidence and new, so it never decreases, and a call with
\* new below the current value leaves it unchanged.
C5_UpdateIsMax ==
    /\ [](last.op = "update_confidence" =>
            /\ nodes[last.id].confidence = Max(last.x, last.y)
            /\ nodes[last.id].confidence >= last.x
            /\ (last.y < last.x => nodes[last.id].confidence = last.x))
    /\ [][\A i \in 1..Len(nodes) :
            nodes'[i].confidence >= nodes[i].confidence]_vars

\* an update with a smaller value has just returned
C5_Witness ==
    /\ last.op = "update_confidence"
    /\ last.y < last.x
    /\ nodes[last.id].confidence = last.x

\* C6: every node of the store has a confidence within [0,1], whatever the
\* arguments of the constructor and of update_confidence were.
C6_NodeConfidenceInRange ==
    \A i \in 1..Len(nodes) : nodes[i].confidence \in 0..1000

\* C7: no Node, Edge or InferenceRecord with a confidence outside [0,1] is
\* ever constructed, so none is in the store.
C7_NoOutOfRangeObject ==
    /\ (last.op \in {"Node", "Edge", "InferenceRecord"} /\ last.x \notin 0..1000)
          => last.result = "ValidationError"
    /\ \A i \in 1..Len(edges) : edges[i].confidence \in 0..1000
    /\ \A i \in 1..Len(inferences) : inferences[i].confidence \in 0..1000

(***************************************************************************)
(* Graph intelligence on its own: a host that stores edges and runs the    *)
(* batch analytics (main.py lines 153-154).                                *)
(***************************************************************************)
MaxEdges == 5

EdgeInputs ==
    {Edge(k[1], k[2], k[3], c) :
        k \in {<<1, 2, "likely_same_as">>, <<1, 2, "co_occurs_with">>,
               <<2, 1, "likely_same_as">>},
        c \in {700, 950}}

\* graph_engine.py lines 23-25
AddEdge(e) ==
    /\ Len(edges) < MaxEdges
    /\ edges' = Append(edges, e)
    /\ last' = Ret("add_edge", "returned", Len(edges) + 1, "")
    /\ UNCHANGED <<nodes, inferences, visited, memory, known_faces,
                   has_decide, calls, expansions>>

ReinforceConfidence ==
    /\ edges' = reinforce_confidence(edges)
    /\ last' = Ret("reinforce_confidence", "returned", NoneId, "")
    /\ UNCHANGED <<nodes, inferences, visited, memory, known_faces,
                   has_decide, calls, expansions>>

DetectEntityMerges ==
    /\ last' = RetPairs("detect_entity_merges", detect_entity_merges(edges))
    /\ UNCHANGED <<nodes, edges, inferences, visited, memory, known_faces,
                   has_decide, calls, expansions>>

NextGraph ==
    \/ \E e \in EdgeInputs : AddEdge(e)
    \/ ReinforceConfidence
    \/ DetectEntityMerges

SpecGraph == InitModel /\ [][NextGraph]_vars

(***************************************************************************)
(* Repeated reinforcement: a host that stores a set of edges and then      *)
(* calls reinforce_confidence on it again and again.  last.pairs keeps     *)
(* the confidences the edges had before the first call.                    *)
(***************************************************************************)
ParallelInputs ==
    {Edge(1, 2, "co_occurs_with", 500), Edge(1, 2, "co_occurs_with", 700),
     Edge(2, 1, "co_occurs_with", 700)}

\* graph_intelligence.py lines 1-13, called once more on the same store
ReinforceAgain ==
    /\ edges' = reinforce_confidence(edges)
    /\ last' = RetPairs("reinforce_confidence",
                        IF last.op = "reinforce_confidence" THEN last.pairs
                        ELSE [i \in 1..Len(edges) |-> edges[i].confidence])
    /\ UNCHANGED <<nodes, inferences, visited, memory, known_faces,
                   has_decide, calls, expansions>>

NextReinforce ==
    \/ \E e \in ParallelInputs :
          last.op # "reinforce_confidence" /\ AddEdge(e)
    \/ ReinforceAgain

SpecReinforce == InitModel /\ [][NextReinforce]_vars

(***************************************************************************)
(* The face matcher on its own: a host that registers and looks up.        *)
(***************************************************************************)
MaxFaceIds == 3

\* cosines between them: -1, -0.6, 0, 0.6, 0.8, 1
Embeddings == {<<1, 0>>, <<3, 4>>, <<0, 1>>, <<-1, 0>>}

RegisterFace(node_id, embedding) ==
    /\ known_faces' = register_face(known_faces, node_id, embedding)
    /\ last' = Ret("register_face", "returned", node_id, "")
    /\ UNCHANGED <<nodes, edges, inferences, visited, memory, has_decide, calls,
                   expansions>>

FindMatch(embedding) ==
    /\ last' = RetMatch(find_match(known_faces, embedding), embedding)
    /\ UNCHANGED <<nodes, edges, inferences, visited, memory, known_faces,
                   has_decide, calls, expansions>>

NextMatcher ==
    \/ \E id \in 1..MaxFaceIds, emb \in Embeddings : RegisterFace(id, emb)
    \/ \E emb \in Embeddings : FindMatch(emb)

SpecMatcher == InitModel /\ [][NextMatcher]_vars

(***************************************************************************)
(* The investigation memory on its own: a host that records outcomes and   *)
(* asks for the scores.                                                    *)
(***************************************************************************)
MaxRecords == 4

MemoryTypes == {"image", "username"}

MemoryPrimitives == {"image_fingerprint", "None"}

\* the number of record_result calls so far
Recorded ==
    LET n(p) == memory.successful_primitives[p] + memory.failed_primitives[p]
    IN  n("image_fingerprint") + n("face_analysis") + n("identity_osint")
        + n("infrastructure_osint") + n("None")

\* memory.py lines 12-18
RecordResult(node_type, primitive, success) ==
    /\ Recorded < MaxRecords
    /\ memory' = record_result(memory, node_type, primitive, success)
    /\ last' = [op |-> "record_result", result |-> "returned", id |-> NoneId,
                tag |-> primitive, x |-> 0, y |-> 0,
                pairs |-> <<node_type, success>>]
    /\ UNCHANGED <<nodes, edges, inferences, visited, known_faces,
                   has_decide, calls, expansions>>

\* memory.py lines 19-23
PrimitiveScore(primitive) ==
    LET score == primitive_score(memory, primitive)
    IN  /\ last' = [op |-> "primitive_score", result |-> "returned",
                    id |-> NoneId, tag |-> primitive, x |-> score[1],
                    y |-> score[2], pairs |-> <<>>]
        /\ UNCHANGED <<nodes, edges, inferences, visited, memory,
                       known_faces, has_decide, calls, expansions>>

\* memory.py lines 25-29
NodeTypeScore(node_type) ==
    LET score == node_type_score(memory, node_type)
    IN  /\ last' = [op |-> "node_type_score", result |-> "returned",
                    id |-> NoneId, tag |-> node_type, x |-> score[1],
                    y |-> score[2], pairs |-> <<>>]
        /\ UNCHANGED <<nodes, edges, inferences, visited, memory,
                       known_faces, has_decide, calls, expansions>>

NextMemory ==
    \/ \E t \in MemoryTypes, p \in MemoryPrimitives, success \in BOOLEAN :
          RecordResult(t, p, success)
    \/ \E p \in MemoryPrimitives : PrimitiveScore(p)
    \/ \E t \in MemoryTypes : NodeTypeScore(t)

SpecMemory == InitModel /\ [][NextMemory]_vars

(***************************************************************************)
(* Risk scoring on its own: a host that stores nodes and edges and asks    *)
(* for the risk scores (main.py line 155).                                 *)
(***************************************************************************)
MaxLinks == 2

RiskNodeInputs ==
    {<<"ip", 500>>, <<"domain", 700>>, <<"username", 500>>,
     <<"face_embedding", 1000>>, <<"asn", 300>>}

ComputeRiskScores ==
    /\ last' = RetPairs("compute_risk_scores", compute_risk_scores(nodes, edges))
    /\ UNCHANGED <<nodes, edges, inferences, visited, memory, known_faces,
                   has_decide, calls, expansions>>

NextRisk ==
    \/ \E n \in RiskNodeInputs : AddNode(n[1], n[2])
    \/ \E from_node \in 1..Len(nodes), to_node \in 1..Len(nodes) :
          /\ from_node # to_node
          /\ Len(edges) < MaxLinks
          /\ AddEdge(Edge(from_node, to_node, "co_occurs_with", 500))
    \/ ComputeRiskScores

SpecRisk == InitModel /\ [][NextRisk]_vars

(***************************************************************************)
(* The confidence function on its own: a host that calls it.               *)
(***************************************************************************)
MaxSupport == 7

ConfidenceSources ==
    {"model_output", "spiderfoot", "external_api", "heuristic", "infra_osint"}

ConfidenceMethods ==
    {"face_embedding", "perceptual_hash", "username_similarity",
     "time_correlation", "dns_lookup"}

SignalStrengths == {0, 500, 750, 920, 1000}

\* confidence.py lines 16-21
CalculateConfidence(source, method, signal_strength, supporting_edges) ==
    /\ \E r \in RoundOutcomes(source, method, signal_strength, supporting_edges) :
          last' = [op |-> "calculate_confidence", result |-> "returned",
                   id |-> NoneId, tag |-> "", x |-> r, y |-> 0,
                   pairs |-> <<source, method, signal_strength,
                               supporting_edges>>]
    /\ UNCHANGED <<nodes, edges, inferences, visited, memory, known_faces,
                   has_decide, calls, expansions>>

NextConfidence ==
    \E source \in ConfidenceSources, method \in ConfidenceMethods,
       signal_strength \in SignalStrengths, supporting_edges \in 0..MaxSupport :
          CalculateConfidence(source, method, signal_strength, supporting_edges)

SpecConfidence == InitModel /\ [][NextConfidence]_vars

(***************************************************************************)
(* The pipeline runner on its own: a host that seeds the store and calls   *)
(* PipelineRunner.execute itself.                                          *)
(***************************************************************************)
MaxSignatures == 2
MaxInferences == 2

\* the signatures the extractor returns to this host
RunnerFaces == {<<1, 0>>, <<0, 1>>}

DispatchTable == {"image_fingerprint", "identity_osint", "infrastructure_osint"}

\* pipeline_runner.py lines 11-23; a tag of the dispatch table comes with a
\* node of the type run_cycle pairs it with, any other tag with any node
Execute(primitive, node_id, c) ==
    LET kg == execute(KG, primitive, node_id, c)
    IN  /\ primitive \in DispatchTable =>
               primitive = decide_primitive(nodes[node_id])
        /\ Len(kg.nodes) <= MaxNodes
        /\ Len(kg.inferences) <= MaxInferences
        /\ SetKG(kg)
        /\ last' = [op |-> "execute",
                    result |-> IF c.fail = "" THEN "returned"
                               ELSE "CollaboratorError",
                    id |-> node_id, tag |-> primitive, x |-> 0, y |-> 0,
                    pairs |-> c.faces]
        /\ UNCHANGED <<visited, memory, has_decide, calls, expansions>>

\* the store is seeded with an image or with artifacts of the types that
\* have a routine; the collaborators of this host return
NextRunner ==
    \/ \E faces \in SeqsUpTo(FaceInputs, MaxFaces) :
          nodes = <<>> /\ SeedImage(faces)
    \/ \E t \in {"username", "domain"} : AddNode(t, 1000)
    \/ \E primitive \in PrimitiveTags, node_id \in 1..Len(nodes) :
          \E c \in CollaboratorsUpTo(primitive, MaxSignatures) :
             /\ c.fail = ""
             /\ \A k \in 1..Len(c.faces) : c.faces[k] \in RunnerFaces
             /\ Execute(primitive, node_id, c)

SpecRunner == InitModel /\ [][NextRunner]_vars

(***************************************************************************)
(* Properties of graph intelligence, checked under SpecGraph.              *)
(***************************************************************************)
\* the number of edges of es with the (from_node, to_node, relation) of edge i
Parallel(es, i) ==
    Cardinality({j \in 1..Len(es) :
        /\ es[j].from_node = es[i].from_node
        /\ es[j].to_node = es[i].to_node
        /\ es[j].relation = es[i].relation})

\* C8: one reinforce_confidence call gives every edge of a group of k >= 2
\* parallel edges the confidence min(1.0, old + min(0.2, 0.05 k)) and leaves
\* every edge that is alone in its group unchanged.
C8_ReinforceBoost ==
    [][last'.op = "reinforce_confidence" =>
        /\ Len(edges') = Len(edges)
        /\ \A i \in 1..Len(edges) :
             LET k == Parallel(edges, i)
                 gain == IF 5 * k < 20 THEN 50 * k ELSE 200
                 sum == edges[i].confidence + gain
             IN  /\ k >= 2 =>
                       edges'[i].confidence = IF sum > 1000 THEN 1000 ELSE sum
                 /\ k = 1 => edges'[i].confidence = edges[i].confidence
                 /\ EdgeKey(edges'[i]) = EdgeKey(edges[i])]_vars

\* a call has just returned on a store with a group of two or more, one of
\* its edges at the cap 1.0, and an edge that is alone in its group
C8_Witness ==
    /\ last.op = "reinforce_confidence"
    /\ \E i \in 1..Len(edges) :
          Parallel(edges, i) >= 2 /\ edges[i].confidence = 1000
    /\ \E i \in 1..Len(edges) :
          Parallel(edges, i) >= 2 /\ edges[i].confidence < 1000
    /\ \E i \in 1..Len(edges) : Parallel(edges, i) = 1

Qualifies(e) == e.relation = "likely_same_as" /\ ~(e.confidence <= 700)

\* C9: detect_entity_merges returns exactly the (from_node, to_node) pairs
\* of the likely_same_as edges with confidence strictly above 0.7, one pair
\* per such edge in store order; an edge at exactly 0.7 yields no pair.
C9_MergesExact ==
    last.op = "detect_entity_merges" =>
        LET hits == SelectSeq(edges, Qualifies)
        IN  /\ Len(last.pairs) = Len(hits)
            /\ \A k \in 1..Len(hits) :
                  last.pairs[k] = <<hits[k].from_node, hits[k].to_node>>
            /\ Len(last.pairs) =
                  Cardinality({i \in 1..Len(edges) :
                      /\ edges[i].relation = "likely_same_as"
                      /\ edges[i].confidence # 700
                      /\ edges[i].confidence >= 700})

\* the call has returned a pair while the store also holds a likely_same_as
\* edge at exactly 0.7 and a confident edge of another relation
C9_Witness ==
    /\ last.op = "detect_entity_merges"
    /\ Len(last.pairs) >= 1
    /\ \E i \in 1..Len(edges) :
          edges[i].relation = "likely_same_as" /\ edges[i].confidence = 700
    /\ \E i \in 1..Len(edges) :
          edges[i].relation # "likely_same_as" /\ edges[i].confidence > 700

\* C24 (checked under SpecReinforce): the corroboration boost saturates at
\* 0.2 in total: for a fixed set of parallel edges, after any number of
\* reinforce_confidence calls no edge's confidence exceeds
\* min(1.0, its original confidence + 0.2).
C24_BoostSaturates ==
    last.op = "reinforce_confidence" =>
        \A i \in 1..Len(edges) :
            LET cap == last.pairs[i] + 200
            IN  edges[i].confidence <= IF cap > 1000 THEN 1000 ELSE cap

(***************************************************************************)
(* Properties of the face matcher, checked under SpecMatcher.              *)
(***************************************************************************)
Similarities(embedding) ==
    {cosine_similarity(embedding, known_faces[i].emb) : i \in 1..Len(known_faces)}

\* the greatest similarity to a registered vector (0 on an empty registry)
BestSimilarity(embedding) ==
    IF Len(known_faces) = 0 THEN 0
    ELSE CHOOSE b \in Similarities(embedding) :
            \A o \in Similarities(embedding) : o <= b

\* the first registered id with that similarity
BestId(embedding) ==
    LET b == BestSimilarity(embedding)
        first == CHOOSE i \in 1..Len(known_faces) :
                    /\ cosine_similarity(embedding, known_faces[i].emb) = b
                    /\ \A j \in 1..(i - 1) :
                          cosine_similarity(embedding, known_faces[j].emb) # b
    IN  known_faces[first].id

\* C10 as stated: find_match returns (best_id, best_score) only if the best
\* similarity is strictly above the threshold, and (None, 0) whenever it is
\* at or below the threshold.
C10_MatchAboveThresholdOnly ==
    last.op = "find_match" =>
        LET b == BestSimilarity(last.pairs)
        IN  IF b > threshold
            THEN last.id = BestId(last.pairs) /\ last.x = b
            ELSE last.id = NoneId /\ last.x = 0

\* C10 as amended: find_match returns (best_id, best_score) exactly when the
\* best similarity is strictly above 0, whatever the threshold, and
\* (None, 0) otherwise.
C10_MatchAboveZero ==
    last.op = "find_match" =>
        LET b == BestSimilarity(last.pairs)
        IN  IF b > 0
            THEN last.id = BestId(last.pairs) /\ last.x = b
            ELSE last.id = NoneId /\ last.x = 0

\* a lookup has returned an id whose similarity is exactly the threshold,
\* with a second registered vector at the same similarity
C10_Witness ==
    /\ last.op = "find_match"
    /\ last.id # NoneId
    /\ last.x = threshold
    /\ Cardinality({i \in 1..Len(known_faces) :
          cosine_similarity(last.pairs, known_faces[i].emb) = threshold}) >= 2

\* C11: find_match on an empty registry (no register_face call has happened
\* yet) returns (None, 0) and raises no error.
C11_EmptyRegistryNone ==
    (last.op = "find_match" /\ Len(known_faces) = 0) =>
        /\ last.result = "returned"
        /\ last.id = NoneId
        /\ last.x = 0

\* a lookup has returned while nothing has been registered
C11_Witness ==
    /\ last.op = "find_match"
    /\ last.result = "returned"
    /\ Len(known_faces) = 0

(***************************************************************************)
(* Properties of risk scoring, checked under SpecRisk.                     *)
(***************************************************************************)
\* incoming plus outgoing edges of node i
Degree(i) ==
    Cardinality({j \in 1..Len(edges) : edges[j].to_node = i})
    + Cardinality({j \in 1..Len(edges) : edges[j].from_node = i})

TypeBonus(type) ==
    IF type = "username" \/ type = "face_embedding" THEN 300
    ELSE IF type = "ip" \/ type = "domain" THEN 200
    ELSE 0

\* C14: compute_risk_scores gives every node
\* risk = min(1.0, confidence + 0.1 x centrality + type_bonus) with
\* type_bonus 0.3 for username/face_embedding, 0.2 for ip/domain and 0
\* otherwise, where centrality is the number of edges touching the node; an
\* ip node with confidence 0.5 and centrality 2 gets 0.9.
C14_RiskFormula ==
    last.op = "compute_risk_scores" =>
        /\ Len(last.pairs) = Len(nodes)
        /\ \A i \in 1..Len(nodes) :
              LET sum == nodes[i].confidence + 100 * Degree(i)
                           + TypeBonus(nodes[i].type)
              IN  /\ last.pairs[i] = IF sum > 1000 THEN 1000 ELSE sum
                  /\ (nodes[i].type = "ip" /\ nodes[i].confidence = 500
                        /\ Degree(i) = 2) => last.pairs[i] = 900

\* the scores have been computed for a store with an ip node of confidence
\* 0.5 that two edges touch, one of them incoming, and a node at the cap
C14_Witness ==
    /\ last.op = "compute_risk_scores"
    /\ \E i \in 1..Len(nodes) :
          /\ nodes[i].type = "ip"
          /\ nodes[i].confidence = 500
          /\ Degree(i) = 2
          /\ \E j \in 1..Len(edges) : edges[j].to_node = i
          /\ last.pairs[i] = 900
    /\ \E i \in 1..Len(nodes) : last.pairs[i] = 1000

(***************************************************************************)
(* Properties of the confidence function, checked under SpecConfidence.    *)
(***************************************************************************)
\* the entry of a reliability table for the key, 0.5 when it has none
Reliability(table, key) ==
    IF \E e \in table : e[1] = key
    THEN (CHOOSE e \in table : e[1] = key)[2]
    ELSE 50

\* C13: calculate_confidence(source, method, signal_strength,
\* supporting_edges) equals source_reliability x method_reliability x
\* signal_strength x min(1.0, 0.15 x supporting_edges) rounded to 3 decimals
\* (the result is a thousandth nearest to the product), with 0.5 used for
\* any source or method missing from the tables; in particular
\* (model_output, face_embedding, 0.92, 2) gives 0.188.
C13_ConfidenceFormula ==
    last.op = "calculate_confidence" =>
        LET sr == Reliability({<<"model_output", 80>>, <<"spiderfoot", 60>>,
                               <<"external_api", 70>>, <<"heuristic", 50>>},
                              last.pairs[1])
            mr == Reliability({<<"face_embedding", 85>>,
                               <<"perceptual_hash", 75>>,
                               <<"username_similarity", 60>>,
                               <<"time_correlation", 55>>},
                              last.pairs[2])
            support == IF 15 * last.pairs[4] > 100 THEN 100
                       ELSE 15 * last.pairs[4]
            product == sr * mr * last.pairs[3] * support
            diff == 1000000 * last.x - product
        IN  /\ 2 * diff <= 1000000
            /\ 2 * diff >= -1000000
            /\ last.pairs = <<"model_output", "face_embedding", 920, 2>>
                  => last.x = 188

\* the call of the worked example has returned 0.188
C13_Witness ==
    /\ last.op = "calculate_confidence"
    /\ last.pairs = <<"model_output", "face_embedding", 920, 2>>
    /\ last.x = 188

(***************************************************************************)
(* Properties of the pipeline runner, checked under SpecRunner.            *)
(***************************************************************************)
\* the edges of es behind the first n that carry the relation
AddedEdges(es, n, relation) ==
    {i \in (n + 1)..Len(es) : es[i].relation = relation}

\* the signatures of the sequence whose best similarity to a vector
\* registered before the dispatch is above the threshold
MatchingSignatures(faces) ==
    {k \in 1..Len(faces) : BestSimilarity(faces[k]) > threshold}

\* C12: expanding an image node whose collaborators yield one fingerprint
\* and two face signatures, exactly one of which matches a previously
\* registered node above the threshold, adds exactly 3 new nodes, 3
\* derived_from edges, 1 likely_same_as edge (confidence computed with
\* supporting_edges = 2 from the match score) and exactly 1 new
\* InferenceRecord with status accepted and confidence 0.7.
C12_ImageExpansion ==
    [][(/\ last'.op = "execute"
        /\ last'.result = "returned"
        /\ last'.tag = "image_fingerprint"
        /\ Len(last'.pairs) = 2
        /\ Cardinality(MatchingSignatures(last'.pairs)) = 1)
       => LET k == CHOOSE k \in MatchingSignatures(last'.pairs) : TRUE
              score == BestSimilarity(last'.pairs[k])
          IN  /\ Len(nodes') = Len(nodes) + 3
              /\ Cardinality(AddedEdges(edges', Len(edges), "derived_from")) = 3
              /\ Cardinality(AddedEdges(edges', Len(edges), "likely_same_as")) = 1
              /\ \A i \in AddedEdges(edges', Len(edges), "likely_same_as") :
                    edges'[i].confidence =
                        RoundDiv(80 * 85 * score * 30, 1000000)
              /\ Len(edges') = Len(edges) + 4
              /\ Len(inferences') = Len(inferences) + 1
              /\ inferences'[Len(inferences')].status = "accepted"
              /\ inferences'[Len(inferences')].confidence = 700]_vars

\* the elements of a sequence
Range(s) == {s[i] : i \in 1..Len(s)}

\* C25: the InferenceRecord emitted by artifact fingerprinting lists every
\* node and every edge created by that expansion: nodes_involved contains
\* the fingerprint node and every face-signature node, and edges_created
\* contains every derived_from edge and every likely_same_as edge added
\* during the call.
C25_InferenceListsAll ==
    [][((last'.op = "execute" /\ last'.tag = "image_fingerprint"
            /\ last'.result = "returned")
        \/ (last'.op = "process_image" /\ last'.result = "returned"))
       => LET inf == inferences'[Len(inferences')]
          IN  /\ Len(inferences') = Len(inferences) + 1
              /\ \A i \in (Len(nodes) + 1)..Len(nodes') :
                    nodes'[i].type \in {"image_hash", "face_embedding"}
                        => i \in Range(inf.nodes_involved)
              /\ \A j \in (Len(edges) + 1)..Len(edges') :
                    edges'[j].relation \in {"derived_from", "likely_same_as"}
                        => j \in Range(inf.edges_created)]_vars

\* C15: execute called with a primitive tag that is not in the dispatch
\* table (face_analysis and None among them) raises no error and leaves the
\* nodes, edges and inferences of the store and the registry of the face
\* matcher unchanged.
C15_UnknownTagNoOp ==
    [][(last'.op = "execute" /\ last'.tag \notin DispatchTable) =>
          /\ last'.result = "returned"
          /\ UNCHANGED <<nodes, edges, inferences, known_faces>>]_vars

\* execute(face_analysis) has returned on a face_embedding node of a store
\* that holds edges, an inference and a registered face
C15_Witness ==
    /\ last.op = "execute"
    /\ last.tag = "face_analysis"
    /\ last.result = "returned"
    /\ nodes[last.id].type = "face_embedding"
    /\ Len(edges) > 0
    /\ Len(inferences) > 0
    /\ Len(known_faces) > 0

(***************************************************************************)
(* Further properties of the decision loop, checked under Spec.            *)
(***************************************************************************)
\* C16: a collaborator failure (timeout or service error) raised while a
\* primitive runs does not propagate out of run_cycle and does not halt the
\* decision loop: the cycle completes (run_cycle returns its pair and the
\* outcome is recorded in the memory), and later calls can go on.
C16_FailureContained ==
    [][last'.op = "run_cycle" =>
          /\ last'.result # "CollaboratorError"
          /\ visited' # visited => /\ last'.result = "returned"
                                   /\ memory' # memory]_vars

\* C17: every cycle that dispatches a primitive emits one InferenceRecord
\* whose status reflects the outcome: rejected if the primitive added zero
\* nodes, accepted otherwise.
C17_InferenceReflectsOutcome ==
    [][(/\ last'.op = "run_cycle"
        /\ last'.result \in {"returned", "CollaboratorError"}
        /\ last'.tag \in DispatchTable)
       => /\ Len(inferences') = Len(inferences) + 1
          /\ inferences'[Len(inferences')].status =
                IF Len(nodes') = Len(nodes) THEN "rejected" ELSE "accepted"]_vars

\* C18: whenever run_cycle selects a target node, that node is in visited
\* when run_cycle returns, and it was added before the primitive was
\* dispatched (so it is in visited also when the dispatch raises); this
\* holds also when decide_primitive yields None for the node's type.
C18_TargetVisitedBeforeDispatch ==
    [][(last'.op = "run_cycle"
        /\ last'.result \in {"returned", "CollaboratorError"})
       => /\ last'.id \in 1..Len(nodes)
          /\ last'.id \notin visited
          /\ last'.id \in visited'
          /\ visited \subseteq visited']_vars

\* a cycle on a node whose type has no primitive has returned, after a
\* cycle on another node
C18_Witness ==
    /\ last.op = "run_cycle"
    /\ last.result = "returned"
    /\ last.tag = "None"
    /\ last.id \in visited
    /\ Cardinality(visited) >= 2

\* C19: the decide_primitive that run_cycle invokes maps node type image to
\* image_fingerprint, face_embedding to face_analysis, username to
\* identity_osint, domain and ip to infrastructure_osint and every other
\* type to None, without raising an error for any node type.
C19_DecidePrimitiveTotal ==
    [][(/\ last'.op = "run_cycle"
        /\ last'.id # NoneId
        /\ last'.id \notin visited)
       => /\ last'.result # "AttributeError"
          /\ last'.tag =
                CASE nodes[last'.id].type = "image" -> "image_fingerprint"
                  [] nodes[last'.id].type = "face_embedding" -> "face_analysis"
                  [] nodes[last'.id].type = "username" -> "identity_osint"
                  [] nodes[last'.id].type = "domain" -> "infrastructure_osint"
                  [] nodes[last'.id].type = "ip" -> "infrastructure_osint"
                  [] OTHER -> "None"]_vars

\* s is t or a beginning of t
IsPrefix(s, t) == Len(s) <= Len(t) /\ \A i \in 1..Len(s) : t[i] = s[i]

\* C21: no expansion primitive removes or overwrites an existing node or
\* edge: across any sequence of run_cycle calls the sets of node ids and
\* edge ids only grow, and every node or edge present before a primitive
\* runs is still present with the same fields afterwards.
C21_StoreOnlyGrows ==
    [][IsPrefix(nodes, nodes') /\ IsPrefix(edges, edges')]_vars

\* a cycle has expanded a domain in a store that already held the edges of
\* an earlier expansion, and has put its own edges behind them
C21_Witness ==
    /\ last.op = "run_cycle"
    /\ last.result = "returned"
    /\ nodes[last.id].type = "domain"
    /\ Cardinality(visited) >= 2
    /\ \E i \in 1..Len(edges) : edges[i].from_node # last.id
                                 /\ edges[i].to_node = last.id
    /\ edges[Len(edges)].relation = "hosted_on"

\* C22: run_cycle updates the memory only when a primitive was chosen: in a
\* cycle whose target node type maps to no primitive (asn, hosting_provider,
\* platform, profile_url, image_hash) all four counters are unchanged, so
\* expanding such a node never lowers node_type_score for its type.
C22_NoPrimitiveNoMemory ==
    [][(last'.op = "run_cycle" /\ last'.result = "returned"
        /\ last'.tag = "None")
       => /\ memory' = memory
          /\ ~ScoreLess(node_type_score(memory', nodes[last'.id].type),
                        node_type_score(memory, nodes[last'.id].type))]_vars

\* C23: in every cycle that dispatches a primitive p against a node of type
\* t, exactly one pair of counters is incremented by one:
\* (successful_primitives[p], node_type_success[t]) if and only if the
\* store's node count after the dispatch is strictly greater than before,
\* otherwise (failed_primitives[p], node_type_fail[t]); all other counters
\* are unchanged.
C23_OnePairPerDispatch ==
    [][(last'.op = "run_cycle"
        /\ last'.result \in {"returned", "CollaboratorError"})
       => LET p == last'.tag
              t == nodes[last'.id].type
              grew == Len(nodes') > Len(nodes)
          IN  memory' =
                IF grew
                THEN [memory EXCEPT !.successful_primitives[p] = @ + 1,
                                    !.node_type_success[t] = @ + 1]
                ELSE [memory EXCEPT !.failed_primitives[p] = @ + 1,
                                    !.node_type_fail[t] = @ + 1]]_vars

\* C26: in every state reachable through the agent loop and its primitives,
\* the states left behind when a collaborator call fails part-way included,
\* every edge in the store has a from_node and a to_node that are ids of
\* nodes present in the store (no dangling edges); the ids the face matcher
\* has registered, from which the match edges take their to_node, are ids of
\* face_embedding nodes of the store.
C26_NoDanglingEdges ==
    /\ \A j \in 1..Len(edges) :
          /\ edges[j].from_node \in 1..Len(nodes)
          /\ edges[j].to_node \in 1..Len(nodes)
    /\ \A k \in 1..Len(known_faces) :
          /\ known_faces[k].id \in 1..Len(nodes)
          /\ nodes[known_faces[k].id].type = "face_embedding"

\* a cycle on an image node was cut short by the face extractor: the image
\* and hash nodes and the edge between them are in the store, behind the
\* edges of the seed
C26_Witness ==
    /\ last.op = "run_cycle"
    /\ last.result = "CollaboratorError"
    /\ last.tag = "image_fingerprint"
    /\ Len(edges) >= 2
    /\ edges[Len(edges)].relation = "derived_from"
    /\ edges[Len(edges)].to_node = Len(nodes)
    /\ nodes[Len(nodes)].type = "image_hash"

\* the node ids whose score no other node of the store exceeds
MaximalIds(ns, mem) ==
    {i \in 1..Len(ns) :
        \A j \in 1..Len(ns) : ~ScoreLess(Score(ns, mem, i), Score(ns, mem, j))}

\* the earliest inserted of them, None on the empty store
FirstMaximal(ns, mem) ==
    IF Len(ns) = 0 THEN NoneId
    ELSE CHOOSE i \in MaximalIds(ns, mem) : \A j \in MaximalIds(ns, mem) : i <= j

\* C28: choose_next_target is a function of the store contents in insertion
\* order and of the memory counters alone, and among the nodes of equal
\* maximal score it returns the one inserted first (None on an empty store);
\* every run_cycle that did not change the store reports that id.
C28_FirstInsertedWins ==
    /\ choose_next_target(nodes, memory) = FirstMaximal(nodes, memory)
    /\ (last.op = "run_cycle" /\ last.result \in {"None", "AttributeError"})
          => last.id = FirstMaximal(nodes, memory)

\* a run_cycle has chosen the first of two nodes of equal, positive,
\* maximal score
C28_Witness ==
    /\ last.op = "run_cycle"
    /\ last.id # NoneId
    /\ ScorePositive(Score(nodes, memory, last.id))
    /\ \E j \in MaximalIds(nodes, memory) : j > last.id
    /\ last.id \in MaximalIds(nodes, memory)


\* C29: over any sequence of sequential run_cycle calls each node id is
\* dispatched to the runner at most once: no id ever leaves visited, a call
\* that dispatches does so for an id that was not in visited and is in it
\* afterwards, and a call whose target is already in visited returns None
\* and dispatches nothing, whatever the store and the memory have become.
C29_DispatchedAtMostOnce ==
    [][/\ visited \subseteq visited'
       /\ last'.op = "run_cycle" =>
            /\ last'.result \in {"returned", "CollaboratorError"}
                  => /\ last'.id \notin visited
                     /\ visited' = visited \cup {last'.id}
                     /\ expansions' = expansions + 1
                     /\ expansions' = Cardinality(visited')
            /\ last'.id \in visited
                  => /\ last'.result = "None"
                     /\ UNCHANGED <<nodes, edges, inferences, memory,
                                    known_faces, visited, expansions>>]_vars

\* an expanded ip has produced a domain, the expanded domain has produced an
\* ip, the memory holds successes for both types, and the next call, whose
\* target is the expanded domain, has returned None
C29_Witness ==
    /\ last.op = "run_cycle"
    /\ last.result = "None"
    /\ last.id \in visited
    /\ nodes[last.id].type = "domain"
    /\ memory.node_type_success["domain"] >= 1
    /\ memory.node_type_success["ip"] >= 1
    /\ \E e \in 1..Len(edges) :
          /\ edges[e].from_node \in visited
          /\ nodes[edges[e].from_node].type = "ip"
          /\ edges[e].to_node = last.id
    /\ \E e \in 1..Len(edges) :
          /\ edges[e].from_node = last.id
          /\ nodes[edges[e].to_node].type = "ip"
          /\ edges[e].to_node \notin visited

\* C30: on a graph built by the three expansion primitives alone no two
\* edges have the same (from_node, to_node, relation), no likely_same_as edge
\* has a confidence above 0.204 (0.8 x 0.85 x 1.0 x 0.3), reinforce_confidence
\* leaves every edge as it is and detect_entity_merges returns the empty list.
C30_PrimitiveGraphInert ==
    /\ \A i \in 1..Len(edges) : \A j \in 1..Len(edges) :
          EdgeKey(edges[i]) = EdgeKey(edges[j]) => i = j
    /\ \A i \in 1..Len(edges) :
          edges[i].relation = "likely_same_as" => edges[i].confidence <= 204
    /\ reinforce_confidence(edges) = edges
    /\ detect_entity_merges(edges) = <<>>

\* two images with the same face have been fingerprinted: the store holds a
\* likely_same_as edge at the largest confidence a match can get
C30_Witness ==
    /\ last.op \in {"process_image", "run_cycle"}
    /\ Len(known_faces) >= 2
    /\ \E i \in 1..Len(edges) :
          /\ edges[i].relation = "likely_same_as"
          /\ edges[i].confidence = 204
          /\ nodes[edges[i].from_node].type = "face_embedding"
          /\ nodes[edges[i].to_node].type = "face_embedding"

\* the statements between the read of line 78 and the add of line 85
InSelection(c) == calls[c].pc \in {"chosen", "checked", "decided"}

\* C27: when two run_cycle invocations on the same agent and store
\* interleave, no invocation is between its choose_next_target and its
\* visited.add while another one is, and no two invocations dispatch a
\* primitive against the same node.
C27_ExclusiveSelection ==
    \A c1 \in Calls : \A c2 \in Calls \ {c1} :
        /\ ~(InSelection(c1) /\ InSelection(c2))
        /\ (calls[c1].pc = "dispatched" /\ calls[c2].pc = "dispatched")
              => calls[c1].target_id # calls[c2].target_id


(***************************************************************************)
(* Properties of the investigation memory, checked under SpecMemory.       *)
(***************************************************************************)
\* the fraction <<x, y>> equals s / (s + f), or 0.5 when s + f = 0
IsSuccessRate(x, y, s, f) ==
    /\ y > 0
    /\ IF s + f > 0 THEN x * (s + f) = s * y ELSE 2 * x = y

\* C20: after any sequence of record_result calls, primitive_score(p) equals
\* successes(p) / (successes(p) + failures(p)) when p has been recorded at
\* least once and 0.5 when it has never been recorded; node_type_score
\* behaves the same way for node types; both scores always lie in [0,1].
\* Each record_result call counts one success or one failure for its
\* primitive and for its node type, and nothing else.
C20_ScoresAreSuccessRates ==
    /\ [](/\ last.op = "primitive_score" =>
               IsSuccessRate(last.x, last.y,
                             memory.successful_primitives[last.tag],
                             memory.failed_primitives[last.tag])
          /\ last.op = "node_type_score" =>
               IsSuccessRate(last.x, last.y,
                             memory.node_type_success[last.tag],
                             memory.node_type_fail[last.tag])
          /\ last.op \in {"primitive_score", "node_type_score"} =>
               (0 <= last.x /\ last.x <= last.y))
    /\ [][last'.op = "record_result" =>
            LET ok == IF last'.pairs[2] THEN 1 ELSE 0
            IN  /\ \A p \in PrimitiveTags :
                     LET d == IF p = last'.tag THEN 1 ELSE 0
                     IN  /\ memory'.successful_primitives[p] =
                               memory.successful_primitives[p] + d * ok
                         /\ memory'.failed_primitives[p] =
                               memory.failed_primitives[p] + d * (1 - ok)
                /\ \A t \in NodeTypes :
                     LET d == IF t = last'.pairs[1] THEN 1 ELSE 0
                     IN  /\ memory'.node_type_success[t] =
                               memory.node_type_success[t] + d * ok
                         /\ memory'.node_type_fail[t] =
                               memory.node_type_fail[t] + d * (1 - ok)]_vars

\* node_type_score has returned 2/3 for a type with two successes and one
\* failure while the other type has no observation
C20_Witness ==
    /\ last.op = "node_type_score"
    /\ last.x = 2
    /\ last.y = 3
    /\ memory.node_type_success[last.tag] = 2
    /\ memory.node_type_fail[last.tag] = 1
    /\ \E t \in MemoryTypes :
          memory.node_type_success[t] + memory.node_type_fail[t] = 0

====
